---- MODULE Spec2Model ----
(***************************************************************************)
(* State-machine model of the ballot manager (BallotProvider) of           *)
(* src/modules/polling/components/PollCategoryTag.tsx.                     *)
(*                                                                         *)
(* JavaScript objects are modelled with their identity: every vote object  *)
(* lives in `heap` and ballots map poll ids to heap ids, because the       *)
(* pending callback writes into vote objects that other ballots share and  *)
(* loadBallotFromStorage writes into the ballot object after it has been   *)
(* committed as React state.  Callbacks handed to the transaction tracker  *)
(* keep the values of the render in which submitBallot was called.         *)
(***************************************************************************)
EXTENDS Integers, Naturals, Sequences, FiniteSets, TLC

\* ------------------------------------------------------------------ bounds
\* How many calls a behaviour makes after the mount: calls of the context's
\* functions and events of the environment (reload, network or account change,
\* passing time, a damaged storage item).  What the calls started may complete
\* in any order.
MaxCalls == 2

\* ------------------------------------------------------- program constants
ONE_DAY_IN_MS == 86400000

\* ------------------------------------------------------------ value domain
Polls == {5, 7}
Networks == {"mainnet", "goerli"}
NoAccount == "undefined"
Accounts == {"0xA", NoAccount}
TickSteps == {ONE_DAY_IN_MS + 1}

Absent == "<absent>"        \* the object has no such key
Undef == "<undefined>"      \* the key is there and holds undefined
Null == "<null>"

\* Partial<BallotVote> arguments the callers pass to add/update.
VoteInputs(pollId) ==
  IF pollId = 5
  THEN { [option |-> "1", comment |-> Absent], [option |-> Null, comment |-> ""] }
  ELSE { [option |-> "2", comment |-> "hi"], [option |-> Absent, comment |-> "hi"] }

EmptyMap == [x \in {} |-> 0]

Put(m, k, v) == [x \in (DOMAIN m) \cup {k} |-> IF x = k THEN v ELSE m[x]]

Without(m, k) == [x \in (DOMAIN m) \ {k} |-> m[x]]

Range(m) == {m[x] : x \in DOMAIN m}

\* Reading o.f in JavaScript: a missing key reads as undefined.
Get(v) == IF v = Absent THEN Undef ELSE v

\* !!x for the values a vote field can hold.
Truthy(v) == v \notin {Absent, Undef, Null, ""}

\* Object.keys of an object with integer-like keys: ascending numeric order.
RECURSIVE ObjectKeys(_)
ObjectKeys(S) ==
  IF S = {} THEN <<>>
  ELSE LET lo == CHOOSE x \in S : \A y \in S : x <= y
       IN <<lo>> \o ObjectKeys(S \ {lo})

\* ------------------------------------------------------------------- state
VARIABLES
  network, account, provider,   \* useWeb3 / useAccount
  now,                          \* Date.now()
  storage,                      \* localStorage: key -> item
  heap,                         \* vote objects: id -> BallotVote
  ballot,                       \* useState<Ballot>: [obj, m: poll -> id]
  previousBallot,               \* useState<Ballot>: poll -> id
  txId,                         \* useState<string | null>, 0 is null
  commentsSignature,            \* useState('')
  ballotCount, commentsCount,   \* context values computed at the last render
  subs,                         \* tracked submissions: id -> closure and phase
  signs,                        \* signComments calls in flight
  loads,                        \* settlement checks in flight
  postsInFlight,                \* comment posts not yet answered
  posted,                       \* request body the last step sent to the comments api
  fromLoad, settled,            \* history: the state object is the last load's votes
  nextSub, nextSign,            \* ids of the next submission and signComments call
  mutatedAt,                    \* history: nextSign at the last add/update/remove
  budget,                       \* calls still to make
  last                          \* history: the step just taken

vars == <<network, account, provider, now, storage, heap, ballot, previousBallot,
          txId, commentsSignature, ballotCount, commentsCount, subs, signs, loads,
          postsInFlight, posted, fromLoad, settled, nextSub, nextSign, mutatedAt,
          budget, last>>

NoPost == [sent |-> FALSE, comments |-> <<>>, signedMessage |-> "", txHash |-> Absent,
           network |-> ""]

NoneSettled == [p \in Polls |-> "none"]

\* The step just taken: the operation, its poll or submission, a note on the state
\* it was taken in, and the error it raised to its caller.  A load also records
\* how many entries the ballot had; an add records the keys the ballot had, and a
\* remove that directly follows the add of the same poll carries them on; a mined
\* callback records the keys of the ballot it merged.  An add or update records
\* the ballotVote it was given.
NoArg == [option |-> Absent, comment |-> Absent]

Step(op, poll, sub, note) ==
  [op |-> op, poll |-> poll, sub |-> sub, note |-> note, had |-> 0, keys |-> {},
   undo |-> FALSE, err |-> "none", arg |-> NoArg]

\* ------------------------------------------------------------ localStorage
Key(net, acc) == <<"ballot", net, acc>>

Keys == {Key(n, a) : n \in Networks, a \in Accounts}

NoItem == [present |-> FALSE, kind |-> "", data |-> EmptyMap, expiry |-> 0]

\* localStorage.get(key): the stored string, or null once the item has expired.
StorageGet(st, key, t) ==
  IF st[key].present /\ t <= st[key].expiry THEN st[key] ELSE NoItem

\* localStorage.set(key, value, expiryMs)
StorageSet(st, key, kind, data, t, ttl) ==
  [st EXCEPT ![key] = [present |-> TRUE, kind |-> kind, data |-> data, expiry |-> t + ttl]]

\* JSON.stringify of one vote: keys holding undefined are left out.
StringifyVote(e) ==
  [option |-> IF e.option = Undef THEN Absent ELSE e.option,
   comment |-> IF e.comment = Undef THEN Absent ELSE e.comment,
   transactionHash |-> IF e.transactionHash = Undef THEN Absent ELSE e.transactionHash,
   timestamp |-> e.timestamp]

\* JSON.stringify(val) for a ballot val whose votes live in h.
Stringify(m, h) == [p \in DOMAIN m |-> StringifyVote(h[m[p]])]

\* ------------------------------------------------------------------- heap
\* Vote objects are numbered in the order a walk over the live references meets
\* them, so that two states that differ only in the numbering are one state.
SeqOfMap(m) ==
  LET keys == ObjectKeys(DOMAIN m)
  IN [i \in 1..Len(keys) |-> m[keys[i]]]

RECURSIVE SubsWalk(_, _)
SubsWalk(ss, keys) ==
  IF keys = <<>> THEN <<>>
  ELSE SeqOfMap(ss[Head(keys)].b.m) \o SeqOfMap(ss[Head(keys)].prev)
       \o SubsWalk(ss, Tail(keys))

RECURSIVE LoadsWalk(_)
LoadsWalk(ls) ==
  IF ls = {} THEN <<>>
  ELSE LET c == CHOOSE x \in ls :
                  \A y \in ls : x.obj * 100 + x.poll <= y.obj * 100 + y.poll
       IN <<c.ent>> \o LoadsWalk(ls \ {c})

Walk(b, pb, ss, ls) ==
  SeqOfMap(b.m) \o SeqOfMap(pb) \o SubsWalk(ss, ObjectKeys(DOMAIN ss)) \o LoadsWalk(ls)

Renumber(b, pb, ss, ls) ==
  LET w == Walk(b, pb, ss, ls)
      ids == {w[k] : k \in 1..Len(w)}
      first == [i \in ids |-> CHOOSE k \in 1..Len(w) : w[k] = i /\ \A j \in 1..(k - 1) : w[j] # i]
  IN [i \in ids |-> Cardinality({j \in ids : first[j] < first[i]}) + 1]

Renamed(m, r) == [p \in DOMAIN m |-> r[m[p]]]

\* The ids a new vote object can take: the heap is always 1..n.
Fresh(h, k) == Cardinality(DOMAIN h) + 1 + k

\* Fresh ids for the polls of S, in key order.
Alloc(h, S) == [p \in S |-> Fresh(h, Cardinality({q \in S : q < p}))]

\* ------------------------------------------------------------- the helpers
isPollOnBallotMissingNull(m, h, pollId) ==
  IF pollId \notin DOMAIN m THEN Undef
  ELSE IF Get(h[m[pollId]].option) # Undef THEN "true" ELSE "false"

\* isPollOnBallot: ballot[pollId] && typeof option !== 'undefined' && option !== null.
\* An absent entry makes the expression evaluate to undefined, not to false.
isPollOnBallot(m, h, pollId) ==
  IF pollId \notin DOMAIN m THEN Undef
  ELSE IF Get(h[m[pollId]].option) # Undef /\ h[m[pollId]].option # Null
       THEN "true" ELSE "false"

CommentRecord(p, e) ==
  [pollId |-> p, option |-> e.option, comment |-> e.comment,
   transactionHash |-> e.transactionHash, timestamp |-> e.timestamp]

\* getComments: keys on the ballot, mapped to {pollId, ...vote}, with a comment.
getComments(m, h) ==
  LET keys == SelectSeq(ObjectKeys(DOMAIN m), LAMBDA k : isPollOnBallot(m, h, k) = "true")
      recs == [i \in 1..Len(keys) |-> CommentRecord(keys[i], h[m[keys[i]]])]
  IN SelectSeq(recs, LAMBDA c : Truthy(c.comment))

\* ------------------------------------------------------------ render, heap
\* The object graph after a step: ballot b, previousBallot pb, submissions ss and
\* settlement checks ls over the heap h.  Checks whose votes object nobody holds
\* any more are dropped, then the live vote objects are renumbered.
Normal(b, pb, ss, ls, h) ==
  LET live == {c \in ls : c.obj = b.obj \/ \E s \in DOMAIN ss : ss[s].b.obj = c.obj}
      r == Renumber(b, pb, ss, live)
  IN [ballot |-> [obj |-> b.obj, m |-> Renamed(b.m, r)],
      previousBallot |-> Renamed(pb, r),
      subs |-> [s \in DOMAIN ss |->
                  [ss[s] EXCEPT !.b = [obj |-> ss[s].b.obj, m |-> Renamed(ss[s].b.m, r)],
                                !.prev = Renamed(ss[s].prev, r)]],
      loads |-> {[c EXCEPT !.ent = r[c.ent]] : c \in live},
      heap |-> [n \in {r[i] : i \in DOMAIN r} |-> h[CHOOSE i \in DOMAIN r : r[i] = n]]]

Commit(b, pb, ss, ls, h) ==
  \E n \in {Normal(b, pb, ss, ls, h)} :
     /\ ballot' = n.ballot
     /\ previousBallot' = n.previousBallot
     /\ subs' = n.subs
     /\ loads' = n.loads
     /\ heap' = n.heap

\* A committed useState change re-renders the provider, which recomputes the
\* derived context values.
Render ==
  /\ ballotCount' = Cardinality(DOMAIN ballot'.m)
  /\ commentsCount' = Len(getComments(ballot'.m, heap'))

NoRender == UNCHANGED <<ballotCount, commentsCount>>

\* setBallot(val) with a new object: the state no longer is the last load's votes.
LeaveLoad ==
  /\ fromLoad' = FALSE
  /\ settled' = NoneSettled

\* updateBallot(val) called from a render with the given network and account:
\* setBallot(val); localStorage.set(key, JSON.stringify(val), ONE_DAY_IN_MS).
updateBallot(val, h, net, acc) ==
  [ballot |-> [obj |-> 0, m |-> val],
   storage |-> StorageSet(storage, Key(net, acc), "json", Stringify(val, h), now,
                          ONE_DAY_IN_MS)]

\* ---------------------------------------------------- loadBallotFromStorage
\* What the storage holds under a key, as the load finds it.
StorageState(st, key, t) ==
  IF ~st[key].present THEN "absent"
  ELSE IF t > st[key].expiry THEN "expired"
  ELSE st[key].kind

\* JSON.parse(prevBallot): throws on a string that is no JSON.
JSONParse(item) == [ok |-> item.kind = "json", value |-> item.data]

Uncaught(h) == [set |-> FALSE, raised |-> TRUE, m |-> EmptyMap, checks |-> {}, h |-> h]

\* catch (e) { logger.error(...); setBallot({}) }
Caught(h) == [set |-> TRUE, raised |-> FALSE, m |-> EmptyMap, checks |-> {}, h |-> h]

\* loadBallotFromStorage up to setBallot.  A vote without a transaction hash is in
\* `votes` when it is committed, and so is every vote when there is no provider
\* (await undefined resumes before anything else runs).  Otherwise a vote with a
\* hash waits for provider.getTransaction and is written into `votes` afterwards.
loadBallotFromStorage(st, t, net, acc, prov, h) ==
  LET item == StorageGet(st, Key(net, acc), t)
      parsed == JSONParse(item)
      ids == Alloc(h, DOMAIN parsed.value)
      direct == {p \in DOMAIN parsed.value :
                   ~Truthy(parsed.value[p].transactionHash) \/ ~prov}
  IN IF ~item.present
     THEN [set |-> TRUE, raised |-> FALSE, m |-> EmptyMap, checks |-> {}, h |-> h]
     ELSE IF ~parsed.ok
     THEN Caught(h)
     ELSE [set |-> TRUE, raised |-> FALSE,
           m |-> [p \in direct |-> ids[p]],
           checks |-> {[poll |-> p, ent |-> ids[p]] : p \in (DOMAIN parsed.value) \ direct},
           h |-> [i \in (DOMAIN h) \cup Range(ids) |->
                    IF i \in DOMAIN h THEN h[i]
                    ELSE parsed.value[CHOOSE p \in DOMAIN parsed.value : ids[p] = i]]]

\* The object graph after a load that found r, with submissions ss still tracked.
Loaded(r, b, pb, ss, ls) ==
  LET tag == IF r.checks = {} THEN 0
             ELSE CHOOSE k \in 1..(Cardinality(ls) + 1) :
                    /\ \A c \in ls : c.obj # k
                    /\ \A j \in 1..(k - 1) : \E c \in ls : c.obj = j
      new == {[obj |-> tag, poll |-> c.poll, ent |-> c.ent, cur |-> TRUE] : c \in r.checks}
      old == {[c EXCEPT !.cur = FALSE] : c \in ls}
  IN IF r.set
     THEN Normal([obj |-> tag, m |-> r.m], pb, ss, old \cup new, r.h)
     ELSE Normal(b, pb, ss, ls, r.h)

\* ------------------------------------------------------------------- Init
\* What an earlier session left in the storage: updateBallot wrote these items.
Stored(opt, com, hash) ==
  [option |-> opt, comment |-> com, transactionHash |-> hash, timestamp |-> 0]

Item(data) == [present |-> TRUE, kind |-> "json", data |-> data, expiry |-> ONE_DAY_IN_MS]

StoredBallots ==
  { EmptyMap,
    (5 :> Stored("1", Absent, Absent)) @@ (7 :> Stored("2", "hi", Absent)),
    (5 :> Stored("1", Absent, "0xold")) @@ (7 :> Stored("2", "hi", "0xold")),
    (5 :> Stored(Absent, "hi", Absent)) @@ (7 :> Stored("2", "hi", "0xold")) }

InitialStorages ==
  {[k \in Keys |-> NoItem]}
  \cup {[k \in Keys |->
           IF k = Key("mainnet", "0xA") THEN Item(d)
           ELSE IF k = Key("goerli", "0xA") THEN Item(5 :> Stored("1", "hi", Absent))
           ELSE NoItem] : d \in StoredBallots}

\* The state when the provider has mounted and its effects have run.
Init ==
  /\ network = "mainnet"
  /\ account = "0xA"
  /\ provider = TRUE
  /\ now = 0
  /\ storage \in InitialStorages
  /\ \E r \in {loadBallotFromStorage(storage, now, network, account, provider, EmptyMap)} :
     \E n \in {Loaded(r, [obj |-> 0, m |-> EmptyMap], EmptyMap, EmptyMap, {})} :
       /\ heap = n.heap
       /\ ballot = n.ballot
       /\ loads = n.loads
       /\ settled = [p \in Polls |-> IF p \in DOMAIN r.m THEN "direct" ELSE "none"]
  /\ previousBallot = EmptyMap
  /\ txId = 0
  /\ commentsSignature = ""
  /\ ballotCount = Cardinality(DOMAIN ballot.m)
  /\ commentsCount = Len(getComments(ballot.m, heap))
  /\ subs = EmptyMap
  /\ signs = EmptyMap
  /\ postsInFlight = 0
  /\ posted = NoPost
  /\ fromLoad = TRUE
  /\ nextSub = 1
  /\ nextSign = 1
  /\ mutatedAt = 1
  /\ budget = MaxCalls
  /\ last = [op |-> "mount", poll |-> 0, sub |-> 0,
             note |-> StorageState(storage, Key(network, account), now), had |-> 0,
             keys |-> {}, undo |-> FALSE, err |-> "none", arg |-> NoArg]

Spend ==
  /\ budget > 0
  /\ budget' = budget - 1

\* ---------------------------------------------------------------- mutations
InvalidateKeepsSignature ==
  /\ txId' = 0
  /\ UNCHANGED commentsSignature
  /\ mutatedAt' = nextSign

\* setTxId(null); setCommentSignature('')
Invalidate ==
  /\ txId' = 0
  /\ commentsSignature' = ""
  /\ mutatedAt' = nextSign

Stale == IF commentsSignature # "" \/ txId # 0 THEN "stale" ELSE "clean"

\* {...ballotVote, timestamp: Date.now()}
AddedVote(v, t) ==
  [option |-> v.option, comment |-> v.comment, transactionHash |-> Absent, timestamp |-> t]

\* {...ballot, [pollId]: {...ballotVote, timestamp: Date.now()}}
AddedBallot(m, pollId, id) == Put(m, pollId, id)

addVoteToBallot(pollId, v) ==
  /\ Spend
  /\ Invalidate
  /\ LET id == Fresh(heap, 0)
         h == Put(heap, id, AddedVote(v, now))
         u == updateBallot(AddedBallot(ballot.m, pollId, id), h, network, account)
     IN /\ storage' = u.storage
        /\ Commit(u.ballot, previousBallot, subs, loads, h)
  /\ UNCHANGED <<network, account, provider, now, signs, postsInFlight, nextSub, nextSign>>
  /\ posted' = NoPost
  /\ LeaveLoad
  /\ last' = [Step("add", pollId, 0, Stale) EXCEPT !.keys = DOMAIN ballot.m, !.arg = v]
  /\ Render

RemovedBallotKeepsEntry(m, pollId) == m

\* const {[pollId]: pollToDelete, ...rest} = ballot
RemovedBallot(m, pollId) == Without(m, pollId)

removeVoteFromBallot(pollId) ==
  /\ Spend
  /\ Invalidate
  /\ LET u == updateBallot(RemovedBallot(ballot.m, pollId), heap, network, account)
     IN /\ storage' = u.storage
        /\ Commit(u.ballot, previousBallot, subs, loads, heap)
  /\ UNCHANGED <<network, account, provider, now, signs, postsInFlight, nextSub, nextSign>>
  /\ posted' = NoPost
  /\ LeaveLoad
  /\ last' = IF last.op = "add" /\ last.poll = pollId
              THEN [Step("remove", pollId, 0, Stale) EXCEPT !.keys = last.keys, !.undo = TRUE]
              ELSE Step("remove", pollId, 0, Stale)
  /\ Render

UpdatedVoteReplaces(old, v, t) ==
  [option |-> v.option, comment |-> v.comment, transactionHash |-> Absent, timestamp |-> t]

\* {...ballot[pollId], ...ballotVote, timestamp: Date.now()}
UpdatedVote(old, v, t) ==
  [option |-> IF v.option # Absent THEN v.option ELSE old.option,
   comment |-> IF v.comment # Absent THEN v.comment ELSE old.comment,
   transactionHash |-> old.transactionHash,
   timestamp |-> t]

\* ...ballot[pollId] of a poll the ballot does not hold spreads nothing.
NoVote == [option |-> Absent, comment |-> Absent, transactionHash |-> Absent, timestamp |-> 0]

updateVoteFromBallot(pollId, v) ==
  /\ Spend
  /\ Invalidate
  /\ LET id == Fresh(heap, 0)
         old == IF pollId \in DOMAIN ballot.m THEN heap[ballot.m[pollId]] ELSE NoVote
         h == Put(heap, id, UpdatedVote(old, v, now))
         u == updateBallot(Put(ballot.m, pollId, id), h, network, account)
     IN /\ storage' = u.storage
        /\ Commit(u.ballot, previousBallot, subs, loads, h)
  /\ UNCHANGED <<network, account, provider, now, signs, postsInFlight, nextSub, nextSign>>
  /\ posted' = NoPost
  /\ LeaveLoad
  /\ last' = [Step("update", pollId, 0, Stale) EXCEPT !.arg = v]
  /\ Render

\* clearBallot: setCommentSignature(''); updateBallot({})
clearBallot ==
  /\ Spend
  /\ commentsSignature' = ""
  /\ LET u == updateBallot(EmptyMap, heap, network, account)
     IN /\ storage' = u.storage
        /\ Commit(u.ballot, previousBallot, subs, loads, heap)
  /\ UNCHANGED <<network, account, provider, now, txId, signs, postsInFlight, nextSub,
                 nextSign, mutatedAt>>
  /\ posted' = NoPost
  /\ LeaveLoad
  /\ last' = Step("clear", 0, 0, Stale)
  /\ Render

\* clearTransaction: () => setTxId(null)
clearTransaction ==
  /\ Spend
  /\ txId # 0
  /\ txId' = 0
  /\ UNCHANGED <<network, account, provider, now, storage, heap, ballot, previousBallot,
                 commentsSignature, subs, signs, loads, postsInFlight, fromLoad, settled,
                 nextSub, nextSign, mutatedAt>>
  /\ posted' = NoPost
  /\ last' = Step("clearTransaction", 0, 0, "")
  /\ Render

\* -------------------------------------------------------------- submission
TxHash(s) == "0xh" \o ToString(s)

SubmittedAllPollIds(m, h) == ObjectKeys(DOMAIN m)

\* The two lists submitBallot builds for the batched vote call.
SubmittedPollIds(m, h) ==
  SelectSeq(ObjectKeys(DOMAIN m), LAMBDA k : isPollOnBallot(m, h, k) = "true")

SubmittedOptions(m, h) ==
  LET ids == SubmittedPollIds(m, h)
  IN [i \in 1..Len(ids) |-> h[m[ids[i]]].option]

\* parsePollOptions(pollOptions): each chosen option in the contract's numeric
\* representation, position by position.
EncodeOption(o) == IF o = "1" THEN 1 ELSE IF o = "2" THEN 2 ELSE 0

parsePollOptions(pollOptions) ==
  [i \in 1..Len(pollOptions) |-> EncodeOption(pollOptions[i])]

\* submitBallot: track(voteTxCreator, account, label, {pending, mined, error}) and
\* setTxId.  The three callbacks close over the values of this render.
submitBallot ==
  /\ Spend
  /\ nextSub' = nextSub + 1
  /\ Commit(ballot, previousBallot,
            Put(subs, nextSub,
                [phase |-> "initialized", b |-> ballot, prev |-> previousBallot,
                 network |-> network, account |-> account, sig |-> commentsSignature,
                 hash |-> Absent,
                 pollIds |-> SubmittedPollIds(ballot.m, heap),
                 pollOptions |-> SubmittedOptions(ballot.m, heap),
                 optionIds |-> parsePollOptions(SubmittedOptions(ballot.m, heap))]),
            loads, heap)
  /\ txId' = nextSub
  /\ UNCHANGED <<network, account, provider, now, storage, commentsSignature, signs,
                 postsInFlight, fromLoad, settled, nextSign, mutatedAt>>
  /\ posted' = NoPost
  /\ last' = Step("submit", 0, nextSub, "")
  /\ Render

StampOnBallotOnly(m, h, txHash) ==
  [i \in DOMAIN h |->
     IF \E p \in DOMAIN m : m[p] = i /\ isPollOnBallot(m, h, p) = "true"
     THEN [h[i] EXCEPT !.transactionHash = txHash] ELSE h[i]]

\* votes[pollId] = ballot[pollId]; votes[pollId].transactionHash = txHash: the
\* vote objects of the captured ballot are written in place.
StampVotes(m, h, txHash) ==
  [i \in DOMAIN h |->
     IF i \in Range(m) THEN [h[i] EXCEPT !.transactionHash = txHash] ELSE h[i]]

\* The body of the comments request, when the batch is not empty.
CommentsRequest(comments, sig, txHash, net) ==
  IF Len(comments) > 0
  THEN [sent |-> TRUE, comments |-> comments, signedMessage |-> sig, txHash |-> txHash,
        network |-> net]
  ELSE NoPost

\* pending: txHash => { ... }
pendingCallback(s) ==
  /\ s \in DOMAIN subs
  /\ subs[s].phase = "initialized"
  /\ LET sub == subs[s]
         h == StampVotes(sub.b.m, heap, TxHash(s))
         u == updateBallot(sub.b.m, h, sub.network, sub.account)
         req == CommentsRequest(getComments(sub.b.m, h), sub.sig, TxHash(s), sub.network)
     IN /\ storage' = u.storage
        /\ Commit(u.ballot, previousBallot,
                  [subs EXCEPT ![s].phase = "pending", ![s].hash = TxHash(s)], loads, h)
        /\ posted' = req
        /\ postsInFlight' = postsInFlight + (IF req.sent THEN 1 ELSE 0)
        /\ last' = Step("pending", 0, s, IF ballot.m = sub.b.m THEN "same" ELSE "changed")
  /\ UNCHANGED <<network, account, provider, now, txId, commentsSignature, signs, nextSub,
                 nextSign, mutatedAt, budget>>
  /\ LeaveLoad
  /\ Render

MinedOverwrite(prev, m) == m

\* {...previousBallot, ...ballot}
MinedPrevious(prev, m) ==
  [p \in (DOMAIN prev) \cup (DOMAIN m) |-> IF p \in DOMAIN m THEN m[p] ELSE prev[p]]

\* mined: (txId, txHash) => { setPreviousBallot(...); clearBallot(); setMessage(...) }
minedCallback(s) ==
  /\ s \in DOMAIN subs
  /\ subs[s].phase = "pending"
  /\ LET sub == subs[s]
         u == updateBallot(EmptyMap, heap, sub.network, sub.account)
     IN /\ storage' = u.storage
        /\ Commit(u.ballot, MinedPrevious(sub.prev, sub.b.m), Without(subs, s), loads, heap)
        /\ last' = [Step("mined", 0, s,
                         IF previousBallot = sub.prev /\ network = sub.network
                            /\ account = sub.account
                         THEN "current" ELSE "stale")
                     EXCEPT !.keys = DOMAIN sub.b.m]
  /\ commentsSignature' = ""
  /\ posted' = NoPost
  /\ UNCHANGED <<network, account, provider, now, txId, signs, postsInFlight, nextSub,
                 nextSign, mutatedAt, budget>>
  /\ LeaveLoad
  /\ Render

ErrorClearsBallot(s) ==
  [ballot |-> [obj |-> 0, m |-> EmptyMap], changed |-> TRUE]

\* error: () => { toast.error('Error submitting ballot') }
ErrorEffect(s) == [ballot |-> ballot, changed |-> FALSE]

errorCallback(s) ==
  /\ s \in DOMAIN subs
  /\ Commit(ErrorEffect(s).ballot, previousBallot, Without(subs, s), loads, heap)
  /\ IF ErrorEffect(s).changed THEN LeaveLoad /\ Render
     ELSE UNCHANGED <<fromLoad, settled>> /\ NoRender
  /\ posted' = NoPost
  /\ UNCHANGED <<network, account, provider, now, storage, txId, commentsSignature, signs,
                 postsInFlight, nextSub, nextSign, mutatedAt, budget>>
  /\ last' = Step("error", 0, s, "toast")

\* .catch(() => { logger.error(...); toast.error('Unable to store comments') })
PostCatch == commentsSignature

postFails ==
  /\ postsInFlight > 0
  /\ postsInFlight' = postsInFlight - 1
  /\ commentsSignature' = PostCatch
  /\ posted' = NoPost
  /\ UNCHANGED <<network, account, provider, now, storage, heap, ballot, previousBallot,
                 txId, subs, signs, loads, fromLoad, settled, nextSub, nextSign, mutatedAt, budget>>
  /\ last' = Step("postFails", 0, 0, "toast")
  /\ NoRender

\* ------------------------------------------------------------ signComments
Signature(i) == "0xsig" \o ToString(i)

SignGuardMissing(acc, prov) == TRUE

\* if (!account || !provider) return
SignGuard(acc, prov) == acc # NoAccount /\ prov

\* signComments up to its first await: the comments are taken before the nonce
\* is requested.
signComments ==
  /\ Spend
  /\ nextSign' = nextSign + 1
  /\ IF SignGuard(account, provider)
     THEN /\ signs' = Put(signs, nextSign,
                          [phase |-> "nonce", account |-> account,
                           comments |-> Len(getComments(ballot.m, heap))])
          /\ last' = Step("signComments", 0, nextSign, "nonce requested")
     ELSE /\ UNCHANGED signs
          /\ last' = Step("signComments", 0, nextSign, "no-op")
  /\ posted' = NoPost
  /\ UNCHANGED <<network, account, provider, now, storage, heap, ballot, previousBallot,
                 txId, commentsSignature, subs, loads, postsInFlight, fromLoad, settled,
                 nextSub, mutatedAt>>
  /\ NoRender

\* setCommentSignature(v): React re-renders when the value differs.
SetSignature(v) ==
  /\ commentsSignature' = v
  /\ UNCHANGED <<network, account, provider, now, storage, heap, ballot, previousBallot,
                 txId, subs, loads, postsInFlight, fromLoad, settled, nextSub, nextSign, mutatedAt,
                 budget>>
  /\ IF v # commentsSignature THEN Render ELSE NoRender

\* The nonce arrives: comments.length > 0 ? await sign(...) : ''
nonceArrives(i) ==
  /\ i \in DOMAIN signs
  /\ signs[i].phase = "nonce"
  /\ posted' = NoPost
  /\ IF signs[i].comments > 0
     THEN /\ signs' = [signs EXCEPT ![i].phase = "wallet"]
          /\ last' = Step("nonceArrives", 0, i, "signature requested")
          /\ UNCHANGED <<network, account, provider, now, storage, heap, ballot,
                         previousBallot, txId, commentsSignature, subs, loads,
                         postsInFlight, fromLoad, settled, nextSub, nextSign, mutatedAt, budget>>
          /\ NoRender
     ELSE /\ signs' = Without(signs, i)
          /\ last' = Step("nonceArrives", 0, i, "no comments")
          /\ SetSignature("")

\* The wallet returns the signature: setCommentSignature(signature)
walletSigns(i) ==
  /\ i \in DOMAIN signs
  /\ signs[i].phase = "wallet"
  /\ signs' = Without(signs, i)
  /\ posted' = NoPost
  /\ last' = Step("walletSigns", 0, i, "")
  /\ SetSignature(Signature(i))

\* The nonce request fails or the user refuses to sign: the promise signComments
\* returned rejects and no state is set.
signFails(i) ==
  /\ i \in DOMAIN signs
  /\ signs' = Without(signs, i)
  /\ posted' = NoPost
  /\ last' = [Step("signFails", 0, i, signs[i].phase) EXCEPT !.err = "rejected"]
  /\ UNCHANGED <<network, account, provider, now, storage, heap, ballot, previousBallot,
                 txId, commentsSignature, subs, loads, postsInFlight, fromLoad, settled,
                 nextSub, nextSign, mutatedAt, budget>>
  /\ NoRender

\* -------------------------------------------------- the [network, account] effect
RunLoad(r, pb, ss) ==
  /\ \E n \in {Loaded(r, ballot, pb, ss, loads)} :
       /\ ballot' = n.ballot
       /\ previousBallot' = n.previousBallot
       /\ subs' = n.subs
       /\ loads' = n.loads
       /\ heap' = n.heap
  /\ IF r.set
     THEN /\ fromLoad' = TRUE
          /\ settled' = [p \in Polls |-> IF p \in DOMAIN r.m THEN "direct" ELSE "none"]
     ELSE UNCHANGED <<fromLoad, settled>>

EffectKeepsPrevious == previousBallot

\* useEffect(() => { setPreviousBallot({}); loadBallotFromStorage() }, [network, account])
EffectPrevious == EmptyMap

changeNetworkOrAccount(net, acc) ==
  /\ Spend
  /\ <<net, acc>> # <<network, account>>
  /\ network' = net
  /\ account' = acc
  /\ UNCHANGED <<provider, now, storage, txId, commentsSignature, signs, postsInFlight,
                 nextSub, nextSign, mutatedAt>>
  /\ posted' = NoPost
  /\ \E r \in {loadBallotFromStorage(storage, now, net, acc, provider, heap)} :
       /\ RunLoad(r, EffectPrevious, subs)
       /\ last' = [Step("change", 0, 0, StorageState(storage, Key(net, acc), now))
                     EXCEPT !.had = Cardinality(DOMAIN ballot.m),
                            !.err = IF r.raised THEN "SyntaxError" ELSE "none"]
  /\ Render

\* The page is loaded again: every useState starts over, the callbacks of the
\* old page are gone, and both effects run loadBallotFromStorage.
remount ==
  /\ Spend
  /\ UNCHANGED <<network, account, provider, now, storage, nextSub, nextSign, mutatedAt>>
  /\ txId' = 0
  /\ commentsSignature' = ""
  /\ signs' = EmptyMap
  /\ postsInFlight' = 0
  /\ posted' = NoPost
  /\ \E r \in {loadBallotFromStorage(storage, now, network, account, provider, EmptyMap)} :
       /\ RunLoad([r EXCEPT !.set = TRUE], EmptyMap, EmptyMap)
       /\ last' = [Step("remount", 0, 0, StorageState(storage, Key(network, account), now))
                     EXCEPT !.had = Cardinality(DOMAIN ballot.m),
                            !.err = IF r.raised THEN "SyntaxError" ELSE "none"]
  /\ Render

\* What provider.getTransaction can answer for a recorded hash.
Outcomes ==
  {[tx |-> "null", confirmations |-> 0], [tx |-> "found", confirmations |-> 0],
   [tx |-> "found", confirmations |-> 1], [tx |-> "found", confirmations |-> 2],
   [tx |-> "rejected", confirmations |-> 0]}

KeepsAll(o) == o.tx # "rejected"

KeepsOnlyFound(o) == o.tx = "found" /\ o.confirmations = 0

\* if (!tx || tx.confirmations === 0) votes[pollId] = parsed[pollId]
KeepsVote(o) == o.tx = "null" \/ (o.tx = "found" /\ o.confirmations = 0)

OutcomeName(o) ==
  IF o.tx = "found" THEN (IF o.confirmations = 0 THEN "unconfirmed" ELSE "confirmed")
  ELSE o.tx

\* One settlement check resumes after its await and may write into `votes`,
\* whoever holds that object by now; nothing re-renders.
checkResolves(c, o) ==
  /\ c \in loads
  /\ o \in Outcomes
  /\ LET rest == loads \ {c}
         done == \A d \in rest : d.obj # c.obj
         write(b) ==
           [obj |-> IF done /\ b.obj = c.obj THEN 0 ELSE b.obj,
            m |-> IF b.obj = c.obj /\ KeepsVote(o) THEN Put(b.m, c.poll, c.ent) ELSE b.m]
     IN Commit(write(ballot), previousBallot,
               [s \in DOMAIN subs |-> [subs[s] EXCEPT !.b = write(@)]], rest, heap)
  /\ settled' = IF c.cur /\ fromLoad THEN [settled EXCEPT ![c.poll] = OutcomeName(o)]
                ELSE settled
  /\ posted' = NoPost
  /\ last' = [Step("checkResolves", c.poll, 0, OutcomeName(o))
                EXCEPT !.err = IF o.tx = "rejected" THEN "rejected" ELSE "none"]
  /\ UNCHANGED <<network, account, provider, now, storage, txId, commentsSignature, signs,
                 postsInFlight, fromLoad, nextSub, nextSign, mutatedAt, budget>>
  /\ NoRender

\* ------------------------------------------------------------- environment
tick(d) ==
  /\ Spend
  /\ now' = now + d
  /\ posted' = NoPost
  /\ last' = Step("tick", 0, 0, "")
  /\ UNCHANGED <<network, account, provider, storage, heap, ballot, previousBallot, txId,
                 commentsSignature, subs, signs, loads, postsInFlight, fromLoad, settled,
                 nextSub, nextSign, mutatedAt>>
  /\ NoRender

\* Something else writes a string that is no JSON under the current key.
storageDamaged ==
  /\ Spend
  /\ storage' = StorageSet(storage, Key(network, account), "malformed", EmptyMap, now,
                           ONE_DAY_IN_MS)
  /\ posted' = NoPost
  /\ last' = Step("storageDamaged", 0, 0, "")
  /\ UNCHANGED <<network, account, provider, now, heap, ballot, previousBallot, txId,
                 commentsSignature, subs, signs, loads, postsInFlight, fromLoad, settled,
                 nextSub, nextSign, mutatedAt>>
  /\ NoRender

\* The wallet connects or disconnects its provider; useWeb3 re-renders.
providerChanges ==
  /\ Spend
  /\ provider' = ~provider
  /\ posted' = NoPost
  /\ last' = Step("providerChanges", 0, 0, "")
  /\ UNCHANGED <<network, account, now, storage, heap, ballot, previousBallot, txId,
                 commentsSignature, subs, signs, loads, postsInFlight, fromLoad, settled,
                 nextSub, nextSign, mutatedAt>>
  /\ Render

\* ------------------------------------------------------------ specifications
Next ==
  \/ \E p \in Polls : \E v \in VoteInputs(p) : addVoteToBallot(p, v)
  \/ \E p \in Polls : removeVoteFromBallot(p)
  \/ \E p \in Polls : \E v \in VoteInputs(p) : updateVoteFromBallot(p, v)
  \/ clearBallot
  \/ clearTransaction
  \/ submitBallot
  \/ \E s \in DOMAIN subs : pendingCallback(s)
  \/ \E s \in DOMAIN subs : minedCallback(s)
  \/ \E s \in DOMAIN subs : errorCallback(s)
  \/ postFails
  \/ signComments
  \/ \E i \in DOMAIN signs : nonceArrives(i)
  \/ \E i \in DOMAIN signs : walletSigns(i)
  \/ \E i \in DOMAIN signs : signFails(i)
  \/ \E n \in Networks, a \in Accounts : changeNetworkOrAccount(n, a)
  \/ remount
  \/ \E c \in loads, o \in Outcomes : checkResolves(c, o)
  \/ \E d \in TickSteps : tick(d)
  \/ storageDamaged
  \/ providerChanges

Spec == Init /\ [][Next]_vars

\* ------------------------------------------------------------------ views
\* A ballot as its readers see it: poll id -> vote, whatever the object numbers.
View(m, h) == [p \in DOMAIN m |-> h[m[p]]]

BallotView == View(ballot.m, heap)

PreviousView == View(previousBallot, heap)

\* "Option defined and non-null", "non-empty comment", as the specification words them.
HasOption(e) == e.option \notin {Absent, Undef, Null}

HasComment(e) == e.comment \notin {Absent, Undef, Null, ""}

Mutations == {"add", "update", "remove"}

\* ------------------------------------------------------------------ claims
\* C1: right after addVoteToBallot, updateVoteFromBallot or removeVoteFromBallot,
\* in whatever state it was called, the cached comment signature is the empty
\* string and the held transaction reference is null.
C1_MutationInvalidates ==
  last.op \in Mutations => commentsSignature = "" /\ txId = 0

\* A mutation was called while a signature was cached or a transaction was held.
C1_Witness == last.op \in Mutations /\ last.note = "stale"

\* C2: for every ballot (the current one and those the submission callbacks hold)
\* and every poll id, isPollOnBallot(id) is true exactly when the ballot has an
\* entry for id whose option is neither undefined nor null.
C2_OnBallotIffOption ==
  \A id \in Polls :
    /\ (isPollOnBallot(ballot.m, heap, id) = "true")
         <=> (id \in DOMAIN ballot.m /\ HasOption(heap[ballot.m[id]]))
    /\ \A s \in DOMAIN subs :
         (isPollOnBallot(subs[s].b.m, heap, id) = "true")
           <=> (id \in DOMAIN subs[s].b.m /\ HasOption(heap[subs[s].b.m[id]]))

\* The ballot holds an entry with only a comment, one with a null option and is
\* asked about both.
C2_Witness ==
  /\ DOMAIN ballot.m = Polls
  /\ heap[ballot.m[5]].option = Null
  /\ heap[ballot.m[7]].option = Absent /\ HasComment(heap[ballot.m[7]])
  /\ \A id \in Polls : isPollOnBallot(ballot.m, heap, id) = "false"

\* C3: once loadBallotFromStorage has run and all its settlement checks have
\* resolved, in whatever order, the ballot it loaded holds no entry whose check
\* found a transaction with at least one confirmation.
C3_LoadDropsConfirmed ==
  (fromLoad /\ ballot.obj = 0) =>
    \A p \in Polls : settled[p] = "confirmed" => p \notin DOMAIN ballot.m

\* Two checks of one load have resolved: one vote was confirmed, the other not.
C3_Witness ==
  /\ fromLoad /\ ballot.obj = 0
  /\ \E p, q \in Polls : settled[p] = "confirmed" /\ settled[q] = "unconfirmed"
                         /\ q \in DOMAIN ballot.m

\* C4: when the pending callback of a submission fires with hash h, every entry of
\* the ballot in flight carries transactionHash = h, that ballot is written to the
\* storage, and the request to the comments service holds exactly one record per
\* entry that is on the ballot with a non-empty comment; nothing is sent when there
\* is no such entry.
C4_PendingStampsAndPosts ==
  last.op = "pending" =>
    LET sub == subs[last.sub]
        commented == {p \in DOMAIN ballot.m :
                        HasOption(heap[ballot.m[p]]) /\ HasComment(heap[ballot.m[p]])}
    IN /\ ballot.m = sub.b.m
       /\ \A p \in DOMAIN ballot.m : heap[ballot.m[p]].transactionHash = TxHash(last.sub)
       /\ storage[Key(sub.network, sub.account)]
            = [present |-> TRUE, kind |-> "json", data |-> Stringify(ballot.m, heap),
               expiry |-> now + ONE_DAY_IN_MS]
       /\ posted.sent <=> commented # {}
       /\ Len(posted.comments) = Cardinality(commented)
       /\ {posted.comments[i].pollId : i \in 1..Len(posted.comments)} = commented
       /\ posted.sent => posted.txHash = TxHash(last.sub)

\* The scenario of the specification: two votes in flight, one of them commented.
C4_Witness ==
  /\ last.op = "pending"
  /\ DOMAIN ballot.m = Polls
  /\ \A p \in Polls : HasOption(heap[ballot.m[p]])
  /\ posted.sent /\ Len(posted.comments) = 1 /\ posted.comments[1].pollId = 7

\* C5: when the mined callback of a submission fires, every entry of the ballot
\* that was submitted is in previousBallot afterwards, every entry previousBallot
\* held for another poll is still there, the active ballot is empty, the item
\* the callback persists is the empty ballot and the cached comment signature is
\* the empty string.
C5_MinedMergesAndClears ==
  [][last'.op = "mined" =>
       LET sub == subs[last'.sub]
           key == Key(sub.network, sub.account)
       IN /\ \A p \in DOMAIN sub.b.m :
               /\ p \in DOMAIN previousBallot'
               /\ heap'[previousBallot'[p]] = heap[sub.b.m[p]]
          /\ \A p \in (DOMAIN previousBallot) \ (DOMAIN sub.b.m) :
               /\ p \in DOMAIN previousBallot'
               /\ heap'[previousBallot'[p]] = heap[previousBallot[p]]
          /\ ballot'.m = EmptyMap
          /\ storage'[key].present /\ storage'[key].kind = "json"
          /\ storage'[key].data = EmptyMap
          /\ commentsSignature' = ""]_vars

\* C6: a step in which the error callback of a submission fires, or in which the
\* comment post fails, leaves the ballot, the persisted ballots, previousBallot,
\* the cached comment signature and the held transaction reference as they were;
\* it starts no new submission, and a failed post leaves the tracked submissions
\* as they were.
C6_FailuresKeepState ==
  [][last'.op \in {"error", "postFails"} =>
       /\ View(ballot'.m, heap') = BallotView
       /\ storage' = storage
       /\ View(previousBallot', heap') = PreviousView
       /\ commentsSignature' = commentsSignature
       /\ txId' = txId
       /\ nextSub' = nextSub
       /\ DOMAIN subs' \subseteq DOMAIN subs
       /\ (last'.op = "postFails" => subs' = subs)]_vars

\* The submission of a ballot with votes has just failed while it was held.
C6_Witness ==
  /\ last.op = "error"
  /\ txId = last.sub
  /\ DOMAIN ballot.m = Polls
  /\ storage[Key(network, account)].data = Stringify(ballot.m, heap)

\* C7: right after a change of network or account, previousBallot is the empty
\* map and the ballot is what the storage holds under the new key: each of its
\* entries is the stored entry of that poll, and every stored entry without a
\* transaction hash is in it.
C7_ChangeResetsAndReloads ==
  last.op = "change" =>
    LET item == StorageGet(storage, Key(network, account), now)
        stored == IF item.present /\ item.kind = "json" THEN item.data ELSE EmptyMap
    IN /\ previousBallot = EmptyMap
       /\ \A p \in DOMAIN ballot.m : p \in DOMAIN stored /\ heap[ballot.m[p]] = stored[p]
       /\ \A p \in DOMAIN stored :
            stored[p].transactionHash = Absent => p \in DOMAIN ballot.m

\* The network was switched while the ballot had two votes, and the new key held
\* another ballot.
C7_Witness ==
  /\ last.op = "change"
  /\ last.had = 2
  /\ network = "goerli"
  /\ DOMAIN ballot.m = {5}
  /\ heap[ballot.m[5]].comment = "hi"

\* C8: in every reachable state commentsCount is the number of entries of the
\* ballot whose option is defined and not null and whose comment is not empty.
C8_CommentsCountIsCurrent ==
  commentsCount = Cardinality({p \in DOMAIN ballot.m :
                                 HasOption(heap[ballot.m[p]]) /\ HasComment(heap[ballot.m[p]])})

\* C9 as the specification words it: addVoteToBallot(id, v) directly followed by
\* removeVoteFromBallot(id) leaves the ballot with the keys it had before the add.
C9_AddRemoveRestoresKeys ==
  (last.op = "remove" /\ last.undo) => DOMAIN ballot.m = last.keys

\* C9, amended: addVoteToBallot(id, v) directly followed by removeVoteFromBallot(id)
\* leaves the ballot with the keys it had before the add when id was not among
\* them, and with those keys less id when it was.
C9_AddRemoveDropsId ==
  (last.op = "remove" /\ last.undo) =>
    /\ last.poll \notin last.keys => DOMAIN ballot.m = last.keys
    /\ last.poll \in last.keys => DOMAIN ballot.m = last.keys \ {last.poll}

\* A vote for a new poll was added to a ballot that held another one, and removed.
C9_Witness ==
  /\ last.op = "remove" /\ last.undo
  /\ last.poll \notin last.keys
  /\ last.keys # {}
  /\ DOMAIN ballot.m = last.keys

\* C10: when loadBallotFromStorage finds no item under the current key, an item
\* older than ONE_DAY_IN_MS or one that is no JSON, the ballot it sets is the
\* empty map and no error reaches its caller.
C10_LoadFallsBackToEmpty ==
  (last.op \in {"mount", "remount", "change"}
     /\ last.note \in {"absent", "expired", "malformed"})
    => ballot.m = EmptyMap /\ ballot.obj = 0 /\ last.err = "none"

\* A ballot with votes was held when the page loaded an item that is no JSON.
C10_Witness ==
  /\ last.op = "remount"
  /\ last.note = "malformed"
  /\ last.had > 0
  /\ ballot.m = EmptyMap

\* C11: the lists submitBallot hands to the batched vote call have the same
\* length, the poll ids are exactly the entries of the ballot whose option is
\* defined and not null, each once, and position i of the options is the option
\* (and position i of the encoded options its encoding) of the poll at position i.
C11_SubmitsOnBallotEntries ==
  last.op = "submit" =>
    LET sub == subs[last.sub]
        on == {p \in DOMAIN ballot.m : HasOption(heap[ballot.m[p]])}
    IN /\ Len(sub.pollIds) = Len(sub.pollOptions)
       /\ Len(sub.pollIds) = Len(sub.optionIds)
       /\ Len(sub.pollIds) = Cardinality(on)
       /\ {sub.pollIds[i] : i \in 1..Len(sub.pollIds)} = on
       /\ \A i \in 1..Len(sub.pollIds) :
            /\ sub.pollIds[i] \in DOMAIN ballot.m
            /\ sub.pollOptions[i] = heap[ballot.m[sub.pollIds[i]]].option
            /\ sub.optionIds[i] = EncodeOption(heap[ballot.m[sub.pollIds[i]]].option)

\* A ballot with a vote for poll 7 and a comment without option for poll 5 was
\* submitted: only poll 7 went into the lists.
C11_Witness ==
  /\ last.op = "submit"
  /\ DOMAIN ballot.m = Polls
  /\ ~HasOption(heap[ballot.m[5]])
  /\ subs[last.sub].pollIds = <<7>>
  /\ subs[last.sub].optionIds = <<2>>

\* C12: a signComments call made without account or without provider requests
\* nothing and leaves the cached signature as it was.  Otherwise it requests a
\* nonce for the batch of comments it found; when the nonce arrives it asks the
\* wallet to sign only if that batch is not empty and stores the empty string if
\* it is; the signature the wallet returns is stored.
C12_SignComments ==
  [][/\ (last'.op = "signComments" =>
           /\ commentsSignature' = commentsSignature
           /\ (account = NoAccount \/ ~provider) => signs' = signs
           /\ (account # NoAccount /\ provider) =>
                /\ DOMAIN signs' = (DOMAIN signs) \cup {last'.sub}
                /\ signs'[last'.sub].phase = "nonce"
                /\ signs'[last'.sub].comments
                     = Cardinality({p \in DOMAIN ballot.m :
                                      HasOption(heap[ballot.m[p]])
                                        /\ HasComment(heap[ballot.m[p]])}))
     /\ (last'.op = "nonceArrives" =>
           IF signs[last'.sub].comments > 0
           THEN /\ signs'[last'.sub].phase = "wallet"
                /\ commentsSignature' = commentsSignature
           ELSE /\ last'.sub \notin DOMAIN signs'
                /\ commentsSignature' = "")
     /\ (last'.op = "walletSigns" =>
           /\ signs[last'.sub].phase = "wallet"
           /\ signs[last'.sub].comments > 0
           /\ commentsSignature' = Signature(last'.sub))]_vars

\* A call with a commented vote on the ballot has gone through the nonce and the
\* wallet, and its signature is cached.
C12_Witness ==
  /\ last.op = "walletSigns"
  /\ commentsSignature = Signature(last.sub)
  /\ commentsCount > 0

\* C13: right after an add, update, remove, clear, pending callback or mined
\* callback, the storage item under the key of the current network and account
\* is the serialized in-memory ballot, written to expire ONE_DAY_IN_MS later.
C13_StorageMirrorsBallot ==
  last.op \in {"add", "update", "remove", "clear", "pending", "mined"} =>
    storage[Key(network, account)]
      = [present |-> TRUE, kind |-> "json", data |-> Stringify(ballot.m, heap),
         expiry |-> now + ONE_DAY_IN_MS]

C15_SignatureNeverStale ==
  commentsSignature # "" =>
    \E i \in mutatedAt..(nextSign - 1) : commentsSignature = Signature(i)

\* C16: addVoteToBallot(id, v) makes the entry of id the fields of v with a
\* timestamp of now and nothing of an earlier entry; updateVoteFromBallot(id, v)
\* makes it the earlier entry (if any) with the fields v sets overwritten and a
\* timestamp of now.  Both leave the other entries and previousBallot as they were.
C16_AddReplacesUpdateMerges ==
  [][last'.op \in {"add", "update"} =>
       LET id == last'.poll
           v == last'.arg
           new == heap'[ballot'.m[id]]
           had == id \in DOMAIN ballot.m
           old == heap[ballot.m[id]]
       IN /\ DOMAIN ballot'.m = (DOMAIN ballot.m) \cup {id}
          /\ new.timestamp = now
          /\ last'.op = "add" =>
               /\ new.option = v.option
               /\ new.comment = v.comment
               /\ new.transactionHash = Absent
          /\ last'.op = "update" =>
               /\ new.option = IF v.option # Absent THEN v.option
                                ELSE IF had THEN old.option ELSE Absent
               /\ new.comment = IF v.comment # Absent THEN v.comment
                                 ELSE IF had THEN old.comment ELSE Absent
               /\ new.transactionHash = IF had THEN old.transactionHash ELSE Absent
          /\ \A p \in (DOMAIN ballot.m) \ {id} : heap'[ballot'.m[p]] = heap[ballot.m[p]]
          /\ View(previousBallot', heap') = PreviousView]_vars

\* An update that sets only the comment was applied to a vote that had an option
\* and a transaction hash.
C16_Witness ==
  /\ last.op = "update"
  /\ last.arg.option = Absent
  /\ HasOption(heap[ballot.m[last.poll]])
  /\ heap[ballot.m[last.poll]].comment = last.arg.comment
  /\ heap[ballot.m[last.poll]].transactionHash # Absent

\* C17: while the state object is the votes object of the last load and all its
\* settlement checks have resolved, the ballot holds exactly the stored entries
\* that had no transaction hash, whose transaction was not found or whose
\* transaction had 0 confirmations, whatever the order of the checks.
C17_LoadKeepsUnsettled ==
  (fromLoad /\ ballot.obj = 0) =>
    /\ DOMAIN ballot.m = {p \in Polls : settled[p] \in {"direct", "null", "unconfirmed"}}
    /\ \A p \in DOMAIN ballot.m :
         settled[p] \in {"null", "unconfirmed"} => Truthy(heap[ballot.m[p]].transactionHash)

\* A load found one entry without hash and one whose transaction is not found;
\* both are on the ballot once the check has resolved.
C17_Witness ==
  /\ fromLoad /\ ballot.obj = 0
  /\ settled[5] = "direct" /\ settled[7] = "null"
  /\ DOMAIN ballot.m = Polls

\* C18: the pending callback acts on the ballot as it is when it fires: after it
\* the ballot has the polls it had just before, each entry is what it was just
\* before but for the transaction hash, and the item it persists is that ballot.
C18_PendingActsOnCurrentBallot ==
  [][last'.op = "pending" =>
       LET sub == subs[last'.sub]
       IN /\ DOMAIN ballot'.m = DOMAIN ballot.m
          /\ \A p \in DOMAIN ballot.m :
               [heap'[ballot'.m[p]] EXCEPT !.transactionHash = Absent]
                 = [heap[ballot.m[p]] EXCEPT !.transactionHash = Absent]
          /\ storage'[Key(sub.network, sub.account)].data
               = Stringify(ballot'.m, heap')]_vars

\* C19: a pending or mined callback of a submission that was started under
\* another network or account than the current one leaves the in-memory ballot,
\* previousBallot and the item stored under the current key as they were.
C19_CallbacksKeepToTheirKey ==
  [][(/\ last'.op \in {"pending", "mined"}
      /\ <<subs[last'.sub].network, subs[last'.sub].account>> # <<network, account>>)
       => /\ View(ballot'.m, heap') = BallotView
          /\ View(previousBallot', heap') = PreviousView
          /\ storage'[Key(network, account)] = storage[Key(network, account)]]_vars

\* C20: an entry of the ballot carries the hash of a tracked submission only if
\* its poll was in the poll-id list of that submission, and the entry an
\* updateVoteFromBallot call has just written carries no transaction hash.
C20_HashOnlyOnSubmitted ==
  /\ \A p \in DOMAIN ballot.m : \A s \in DOMAIN subs :
       heap[ballot.m[p]].transactionHash = TxHash(s)
         => \E i \in 1..Len(subs[s].pollIds) : subs[s].pollIds[i] = p
  /\ last.op = "update" => ~Truthy(heap[ballot.m[last.poll]].transactionHash)

====
